---- MODULE Spec2Model ----
(***************************************************************************)
(* A model of the two Tremor helper scripts.                               *)
(*                                                                         *)
(*   src/encode-to-cpp.py   fix_unicode_file, fix_project_files,           *)
(*                          safe_read_cpp_file                             *)
(*   src/declarer.py        find_implementations_in_header,                *)
(*                          generate_move_checklist                        *)
(*                                                                         *)
(* A file is a sequence of bytes (0..255); decoded text is a sequence of   *)
(* code points.  The file system is a function from the paths that exist   *)
(* to their bytes.  Every I/O call may raise: that is a nondeterministic   *)
(* choice between the call's effect and its failure.                       *)
(***************************************************************************)
EXTENDS Integers, Sequences, FiniteSets, TLC

VARIABLES
    fs,           \* the file system: [existing path -> bytes]
    fs0,          \* history: the file system before the program ran
    pc,           \* fix_unicode_file: position in the function
    filepath,     \* fix_unicode_file: its argument
    content,      \* fix_unicode_file: the local `content`
    ret,          \* fix_unicode_file: the value returned
    entry,        \* history: bytes of filepath at call entry
    opened,       \* history: filepath was opened for writing in this call
    raisedAt,     \* history: the statement of the try block that raised, or "none"
    hist,         \* history: one record per finished call of fix_unicode_file
    passed,       \* history: the paths fix_unicode_file was called with, in order
    wpc,          \* fix_project_files: position in the function
    stack,        \* os.walk: directories still to list
    root,         \* fix_project_files: the loop's `root`
    files,        \* fix_project_files: entries of `files` not yet iterated
    fixed_count,  \* fix_project_files: the local `fixed_count`
    printed,      \* fix_project_files: what line 63 printed (-1: nothing yet)
    wret,         \* fix_project_files: the value returned
    rpc,          \* safe_read_cpp_file: position in the function
    encIdx,       \* safe_read_cpp_file: index of the loop's `encoding`
    rret,         \* safe_read_cpp_file: the text returned
    rmsg,         \* safe_read_cpp_file: the encoding its print names
    layout,       \* history: the blocks the header was written from
    header,       \* find_implementations_in_header: `content` (line 13)
    spc,          \* find_implementations_in_header: position in the function
    patIdx,       \* find_implementations_in_header: index of the loop's `pattern`
    pos,          \* re.finditer: where the search for the next match starts
    match,        \* the loop's `match`: [start, end), end exclusive
    implementations,  \* the list built by the scanner, sorted by the renderer
    matches,      \* history: every match re.finditer produced, in order
    returned,     \* history: the list as find_implementations_in_header returned it
    cpc,          \* generate_move_checklist: position in the function
    found,        \* generate_move_checklist: the count line 51 printed (-1: none)
    report        \* generate_move_checklist: the entries lines 58-59 printed

fixState == <<pc, filepath, content, ret, entry, opened, raisedAt, hist, passed>>
walkVars == <<wpc, stack, root, files, fixed_count, printed, wret>>
readVars == <<rpc, encIdx, rret, rmsg>>
scanVars == <<layout, header, spc, patIdx, pos, match, implementations, matches,
              returned, cpc, found, report>>
vars == <<fs, fs0, pc, filepath, content, ret, entry, opened, raisedAt, hist, passed,
          wpc, stack, root, files, fixed_count, printed, wret,
          rpc, encIdx, rret, rmsg,
          layout, header, spc, patIdx, pos, match, implementations, matches, returned,
          cpc, found, report>>

(***************************************************************************)
(* Bounds of the model.                                                    *)
(***************************************************************************)
MaxLen   == 3    \* bytes in the file given to fix_unicode_file
MaxCalls == 2    \* successive calls of fix_unicode_file on the same file
MaxFiles == 4    \* files in the tree given to fix_project_files
MaxReadLen == 3  \* bytes in the file given to safe_read_cpp_file
MaxBlocks == 2        \* blocks in the header given to the scanner
MaxBodyNewlines == 3  \* newlines in the body of a block
MaxPad == 2           \* padded block lengths within this of TruncateAt

\* Line 39 of declarer.py: the length a candidate's text is cut to.
TruncateAt == 100

(***************************************************************************)
(* Sequences.                                                              *)
(***************************************************************************)
RECURSIVE SeqsUpTo(_, _)
SeqsUpTo(S, n) ==
    IF n = 0 THEN {<<>>}
    ELSE LET shorter == SeqsUpTo(S, n - 1)
         IN  shorter \cup {Append(s, x) : s \in {t \in shorter : Len(t) = n - 1}, x \in S}

Prefixes(s) == {SubSeq(s, 1, n) : n \in 0..Len(s)}

RECURSIVE Count(_, _)
Count(s, x) ==
    IF Len(s) = 0 THEN 0
    ELSE (IF s[1] = x THEN 1 ELSE 0) + Count(SubSeq(s, 2, Len(s)), x)

(***************************************************************************)
(* The utf-8 codec, as open(..., encoding='utf-8') uses it.                *)
(***************************************************************************)
\* Length of the sequence a lead byte announces; 0 for an invalid start byte.
LeadLen(b) ==
    IF b < 128 THEN 1
    ELSE IF b >= 194 /\ b <= 223 THEN 2
    ELSE IF b >= 224 /\ b <= 239 THEN 3
    ELSE IF b >= 240 /\ b <= 244 THEN 4
    ELSE 0

\* The k-th byte (k >= 2) of a sequence led by `lead` is a valid continuation.
ContOk(lead, k, b) ==
    IF k = 2 /\ lead = 224 THEN b >= 160 /\ b <= 191
    ELSE IF k = 2 /\ lead = 237 THEN b >= 128 /\ b <= 159
    ELSE IF k = 2 /\ lead = 240 THEN b >= 144 /\ b <= 191
    ELSE IF k = 2 /\ lead = 244 THEN b >= 128 /\ b <= 143
    ELSE b >= 128 /\ b <= 191

\* How many valid continuation bytes follow the lead byte at i (at most n - 1).
RECURSIVE ContRun(_, _, _, _)
ContRun(bytes, i, n, k) ==
    IF k > n \/ i + k - 1 > Len(bytes) THEN 0
    ELSE IF ContOk(bytes[i], k, bytes[i + k - 1])
         THEN 1 + ContRun(bytes, i, n, k + 1)
         ELSE 0

CodePoint(bytes, i, n) ==
    IF n = 1 THEN bytes[i]
    ELSE IF n = 2 THEN (bytes[i] % 32) * 64 + (bytes[i + 1] % 64)
    ELSE IF n = 3 THEN (bytes[i] % 16) * 4096 + (bytes[i + 1] % 64) * 64
                       + (bytes[i + 2] % 64)
    ELSE (bytes[i] % 8) * 262144 + (bytes[i + 1] % 64) * 4096
         + (bytes[i + 2] % 64) * 64 + (bytes[i + 3] % 64)

\* The decoder's scan: the code points in order, with -1 at every decoding
\* error.  An error covers the lead byte and the valid continuation bytes
\* after it; decoding resumes at the byte that follows.
RECURSIVE Utf8Scan(_, _)
Utf8Scan(bytes, i) ==
    IF i > Len(bytes) THEN <<>>
    ELSE LET n == LeadLen(bytes[i])
             k == IF n = 0 THEN 0 ELSE ContRun(bytes, i, n, 2)
         IN  IF n # 0 /\ k = n - 1
             THEN <<CodePoint(bytes, i, n)>> \o Utf8Scan(bytes, i + n)
             ELSE <<-1>> \o Utf8Scan(bytes, i + 1 + k)

\* errors='ignore': undecodable bytes are dropped.
Utf8DecodeIgnore(bytes) == SelectSeq(Utf8Scan(bytes, 1), LAMBDA c : c # -1)

\* encoding='utf-8' on the write side.
Utf8EncodeChar(c) ==
    IF c < 128 THEN <<c>>
    ELSE IF c < 2048 THEN <<192 + (c \div 64), 128 + (c % 64)>>
    ELSE IF c < 65536
         THEN <<224 + (c \div 4096), 128 + ((c \div 64) % 64), 128 + (c % 64)>>
    ELSE <<240 + (c \div 262144), 128 + ((c \div 4096) % 64),
           128 + ((c \div 64) % 64), 128 + (c % 64)>>

RECURSIVE Utf8Encode(_)
Utf8Encode(text) ==
    IF Len(text) = 0 THEN <<>>
    ELSE Utf8EncodeChar(text[1]) \o Utf8Encode(SubSeq(text, 2, Len(text)))

\* Text mode with the default newline=None: on reading, "\r\n" and a lone
\* "\r" become "\n".
RECURSIVE UniversalNewlines(_)
UniversalNewlines(text) ==
    IF Len(text) = 0 THEN <<>>
    ELSE IF text[1] = 13
         THEN IF Len(text) >= 2 /\ text[2] = 10
              THEN <<10>> \o UniversalNewlines(SubSeq(text, 3, Len(text)))
              ELSE <<10>> \o UniversalNewlines(SubSeq(text, 2, Len(text)))
         ELSE <<text[1]>> \o UniversalNewlines(SubSeq(text, 2, Len(text)))

(***************************************************************************)
(* fix_unicode_file: the substitution table.                               *)
(***************************************************************************)
\* str.replace(old, new) for a one-character `old`.
RECURSIVE Replace(_, _, _)
Replace(text, old, new) ==
    IF Len(text) = 0 THEN <<>>
    ELSE (IF text[1] = old THEN new ELSE <<text[1]>>)
         \o Replace(SubSeq(text, 2, Len(text)), old, new)

\* The table of lines 25-33, in the order the code applies it.
Table ==
    << <<8217, <<39>>>>,            \* U+2019 -> '
       <<8216, <<39>>>>,            \* U+2018 -> '
       <<8220, <<34>>>>,            \* U+201C -> "
       <<8221, <<34>>>>,            \* U+201D -> "
       <<8211, <<45>>>>,            \* U+2013 -> -
       <<8212, <<45, 45>>>>,        \* U+2014 -> --
       <<160,  <<32>>>>,            \* U+00A0 -> space
       <<8230, <<46, 46, 46>>>>,    \* U+2026 -> ...
       <<10003, <<91, 88, 93>>>> >> \* U+2713 -> [X]

RECURSIVE ApplyTable(_, _, _)
ApplyTable(text, table, k) ==
    IF k > Len(table) THEN text
    ELSE ApplyTable(Replace(text, table[k][1], table[k][2]), table, k + 1)

\* The table with a slip: the em dash becomes two en dashes, which line 29
\* has already passed.
TableDashTypo == [Table EXCEPT ![6] = <<8212, <<8211, 8211>>>>]
SubstitutedDashTypo(text) == ApplyTable(text, TableDashTypo, 1)

Substituted(text) == ApplyTable(text, Table, 1)

(***************************************************************************)
(* The file system.                                                        *)
(***************************************************************************)
Exists(f, p) == p \in DOMAIN f

\* The file system after path p holds `data` (created or overwritten).
Put(f, p, data) ==
    [q \in (DOMAIN f) \cup {p} |-> IF q = p THEN data ELSE f[q]]

\* shutil.copy2(src, dst), the copy done.
Copied(f, src, dst) == Put(f, dst, f[src])

\* What shutil.copy2(src, dst) can leave behind when it raises: dst as it
\* was (it could not be opened), or dst truncated and partly written.
CopyFailures(f, src, dst) ==
    {f} \cup {Put(f, dst, d) : d \in Prefixes(f[src]) \ {f[src]}}

BackupPath(p) == p \o ".backup"

(***************************************************************************)
(* fix_unicode_file(filepath), one action per statement that does I/O.     *)
(***************************************************************************)
\* CreateBackup with a slip: a backup that is already there is kept.
CreateBackupOnce ==
    /\ pc = "backup"
    /\ fs' = IF Exists(fs, BackupPath(filepath))
             THEN fs
             ELSE Copied(fs, filepath, BackupPath(filepath))
    /\ pc' = "read"
    /\ UNCHANGED <<filepath, content, ret, entry, opened, raisedAt, hist>>
    /\ UNCHANGED <<fs0, passed, walkVars, readVars, scanVars>>

\* Line 16, shutil.copy2(filepath, backup_path), before the try block.
CreateBackup ==
    /\ pc = "backup"
    /\ fs' = Copied(fs, filepath, BackupPath(filepath))
    /\ pc' = "read"
    /\ UNCHANGED <<filepath, content, ret, entry, opened, raisedAt, hist>>
    /\ UNCHANGED <<fs0, passed, walkVars, readVars, scanVars>>

\* Line 16 raises: nothing catches it, the exception leaves the function.
CreateBackupRaises ==
    /\ pc = "backup"
    /\ fs' \in CopyFailures(fs, filepath, BackupPath(filepath))
    /\ pc' = "raised"
    /\ UNCHANGED <<filepath, content, ret, entry, opened, raisedAt, hist>>
    /\ UNCHANGED <<fs0, passed, walkVars, readVars, scanVars>>

\* Lines 21-22: the text of the file, undecodable bytes ignored.
ReadFile ==
    /\ pc = "read"
    /\ content' = UniversalNewlines(Utf8DecodeIgnore(fs[filepath]))
    /\ pc' = "substitute"
    /\ UNCHANGED <<fs, filepath, ret, entry, opened, raisedAt, hist>>
    /\ UNCHANGED <<fs0, passed, walkVars, readVars, scanVars>>

ReadFileRaises ==
    /\ pc = "read"
    /\ pc' = "except"
    /\ raisedAt' = "read"
    /\ UNCHANGED <<fs, filepath, content, ret, entry, opened, hist>>
    /\ UNCHANGED <<fs0, passed, walkVars, readVars, scanVars>>

\* Lines 25-33.
Substitute ==
    /\ pc = "substitute"
    /\ content' = Substituted(content)
    /\ pc' = "open"
    /\ UNCHANGED <<fs, filepath, ret, entry, opened, raisedAt, hist>>
    /\ UNCHANGED <<fs0, passed, walkVars, readVars, scanVars>>

\* An exception in lines 25-33 (MemoryError).
SubstituteRaises ==
    /\ pc = "substitute"
    /\ pc' = "except"
    /\ raisedAt' = "substitute"
    /\ UNCHANGED <<fs, filepath, content, ret, entry, opened, hist>>
    /\ UNCHANGED <<fs0, passed, walkVars, readVars, scanVars>>

\* Line 36: open(filepath, 'w') truncates the file.
OpenForWrite ==
    /\ pc = "open"
    /\ fs' = Put(fs, filepath, <<>>)
    /\ opened' = TRUE
    /\ pc' = "write"
    /\ UNCHANGED <<filepath, content, ret, entry, raisedAt, hist>>
    /\ UNCHANGED <<fs0, passed, walkVars, readVars, scanVars>>

OpenForWriteRaises ==
    /\ pc = "open"
    /\ pc' = "except"
    /\ raisedAt' = "open"
    /\ UNCHANGED <<fs, filepath, content, ret, entry, opened, hist>>
    /\ UNCHANGED <<fs0, passed, walkVars, readVars, scanVars>>

Finished(r, f) ==
    [path |-> filepath, entry |-> entry, ret |-> r, opened |-> opened,
     raisedAt |-> raisedAt, exit |-> f[filepath], backup |-> f[BackupPath(filepath)]]

\* Lines 37-40: the text written (newline='\n' translates nothing), the file
\* closed, True returned.
WriteFile ==
    /\ pc = "write"
    /\ fs' = Put(fs, filepath, Utf8Encode(content))
    /\ ret' = TRUE
    /\ pc' = "done"
    /\ hist' = Append(hist, Finished(TRUE, fs'))
    /\ UNCHANGED <<filepath, content, entry, opened, raisedAt>>
    /\ UNCHANGED <<fs0, passed, walkVars, readVars, scanVars>>

\* Line 37 or the close raises after part of the text reached the file.
WriteFileRaises ==
    /\ pc = "write"
    /\ \E d \in Prefixes(Utf8Encode(content)) : fs' = Put(fs, filepath, d)
    /\ pc' = "except"
    /\ raisedAt' = "write"
    /\ UNCHANGED <<filepath, content, ret, entry, opened, hist>>
    /\ UNCHANGED <<fs0, passed, walkVars, readVars, scanVars>>

\* Restore with a slip: the handler reports the failure and copies nothing.
RestoreWithoutCopy ==
    /\ pc = "except"
    /\ ret' = FALSE
    /\ pc' = "done"
    /\ hist' = Append(hist, Finished(FALSE, fs))
    /\ UNCHANGED <<fs, filepath, content, entry, opened, raisedAt>>
    /\ UNCHANGED <<fs0, passed, walkVars, readVars, scanVars>>

\* Lines 42-46: the backup copied over the file, False returned.
Restore ==
    /\ pc = "except"
    /\ fs' = Copied(fs, BackupPath(filepath), filepath)
    /\ ret' = FALSE
    /\ pc' = "done"
    /\ hist' = Append(hist, Finished(FALSE, fs'))
    /\ UNCHANGED <<filepath, content, entry, opened, raisedAt>>
    /\ UNCHANGED <<fs0, passed, walkVars, readVars, scanVars>>

\* Line 44 raises inside the handler: the exception leaves the function.
RestoreRaises ==
    /\ pc = "except"
    /\ fs' \in CopyFailures(fs, BackupPath(filepath), filepath)
    /\ pc' = "raised"
    /\ UNCHANGED <<filepath, content, ret, entry, opened, raisedAt, hist>>
    /\ UNCHANGED <<fs0, passed, walkVars, readVars, scanVars>>

FixStep ==
    \/ CreateBackup
    \/ CreateBackupRaises
    \/ ReadFile
    \/ ReadFileRaises
    \/ Substitute
    \/ SubstituteRaises
    \/ OpenForWrite
    \/ OpenForWriteRaises
    \/ WriteFile
    \/ WriteFileRaises
    \/ Restore
    \/ RestoreRaises

\* The call itself: the argument bound, the function entered.
Enter(p) ==
    /\ filepath' = p
    /\ entry' = fs[p]
    /\ opened' = FALSE
    /\ raisedAt' = "none"
    /\ content' = <<>>
    /\ pc' = "backup"
    /\ passed' = Append(passed, p)
    /\ UNCHANGED <<fs, ret, hist>>

(***************************************************************************)
(* The script's own use of fix_unicode_file (line 68): one file, the       *)
(* script run again on the file it has fixed.                              *)
(***************************************************************************)
TargetFile == "taffy.h"

\* The bytes the model puts in the file: ASCII, both line ends, and the
\* bytes of U+2014 and U+00A0 (and of what their pieces make up).
ByteSamples == {65, 10, 13, 226, 128, 148, 194, 160}

WalkIdle ==
    /\ wpc = "idle" /\ stack = <<>> /\ root = "" /\ files = {}
    /\ fixed_count = 0 /\ printed = -1 /\ wret = [type |-> "", value |-> 0]

FixIdle ==
    /\ pc = "idle" /\ filepath = "" /\ content = <<>> /\ ret = FALSE
    /\ entry = <<>> /\ opened = FALSE /\ raisedAt = "none"
    /\ hist = <<>> /\ passed = <<>>

ReadIdle ==
    /\ rpc = "idle" /\ encIdx = 0 /\ rret = <<>> /\ rmsg = ""

ScanIdle ==
    /\ spc = "idle" /\ patIdx = 0 /\ pos = 0 /\ match = [start |-> 0, end |-> 0]
    /\ implementations = <<>>
    /\ matches = <<>> /\ returned = <<>>
    /\ cpc = "idle" /\ found = -1 /\ report = <<>>

NoHeader == layout = <<>> /\ header = <<>>

InitFix ==
    /\ \E data \in SeqsUpTo(ByteSamples, MaxLen) :
         fs = [p \in {TargetFile} |-> data]
    /\ fs0 = fs
    /\ FixIdle /\ WalkIdle /\ ReadIdle /\ ScanIdle /\ NoHeader

Call ==
    /\ pc = "idle"
    /\ Len(passed) < MaxCalls
    /\ Enter(TargetFile)
    /\ UNCHANGED <<fs0, walkVars, readVars, scanVars>>

Return ==
    /\ pc = "done"
    /\ pc' = "idle"
    /\ UNCHANGED <<fs, fs0, filepath, content, ret, entry, opened, raisedAt, hist,
                   passed, walkVars, readVars, scanVars>>

NextFix ==
    \/ Call
    \/ FixStep
    \/ Return

SpecFix == InitFix /\ [][NextFix]_vars

(***************************************************************************)
(* fix_project_files(project_dir).                                         *)
(***************************************************************************)
cpp_extensions == <<".cpp", ".h", ".hpp", ".cc", ".cxx">>

\* str.endswith
EndsWith(s, suffix) ==
    /\ Len(s) >= Len(suffix)
    /\ SubSeq(s, Len(s) - Len(suffix) + 1, Len(s)) = suffix

\* Line 56 with a slip: `ext in file` for file.endswith(ext).
IsCppNameAnywhere(file) ==
    \E k \in 1..Len(cpp_extensions) : \E i \in 1..Len(file) :
        /\ i + Len(cpp_extensions[k]) - 1 <= Len(file)
        /\ SubSeq(file, i, i + Len(cpp_extensions[k]) - 1) = cpp_extensions[k]

\* Line 56: any(file.endswith(ext) for ext in cpp_extensions)
IsCppName(file) ==
    \E k \in 1..Len(cpp_extensions) : EndsWith(file, cpp_extensions[k])

\* os.path.join(root, file)
Join(dir, file) == dir \o "/" \o file

\* The tree the model walks: the project directory and one directory in it.
ProjectDir == "Tremor"
SubDir     == "Tremor/taffy"
SubDirsOf(dir) == IF dir = ProjectDir THEN <<SubDir>> ELSE <<>>

\* The file names the model knows, and the backups they can get.
BaseNames == {"vk.cpp", "main.h", "notes.txt", "taffy.hpp", "gfx.cc", "mem.cxx"}
Names     == BaseNames \cup {BackupPath(n) : n \in BaseNames}

\* What a file of the tree holds before the walk: a non-breaking space and a
\* letter in a source or text file, a letter in a backup left by an earlier run.
InitialBytes(name) ==
    IF EndsWith(name, ".backup") THEN <<66>> ELSE <<194, 160, 65>>

\* The paths that may exist before the walk.
CandidatePaths ==
    {Join(ProjectDir, n) : n \in {"vk.cpp", "main.h", "notes.txt", "vk.cpp.backup"}}
    \cup {Join(SubDir, n) : n \in {"taffy.hpp", "gfx.cc", "mem.cxx"}}

NameOf(path) == CHOOSE n \in Names : \E d \in {ProjectDir, SubDir} : path = Join(d, n)

\* The `files` of one os.walk step: the names of the files now in `dir`.
Listing(f, dir) == {n \in Names : Exists(f, Join(dir, n))}

InitWalk ==
    /\ \E present \in SUBSET CandidatePaths :
         /\ Cardinality(present) <= MaxFiles
         /\ fs = [p \in present |-> InitialBytes(NameOf(p))]
    /\ fs0 = fs
    /\ FixIdle /\ WalkIdle /\ ReadIdle /\ ScanIdle /\ NoHeader

\* Lines 51-54: the locals set, os.walk(project_dir) started.
WalkStart ==
    /\ wpc = "idle"
    /\ fixed_count' = 0
    /\ stack' = <<ProjectDir>>
    /\ wpc' = "walk"
    /\ UNCHANGED <<fs, fs0, fixState,
                   root, files, printed, wret>>
    /\ UNCHANGED <<readVars, scanVars>>

\* Line 54: os.walk lists the next directory, top down, when the loop asks
\* for it, and queues its subdirectories before the directories after it.
WalkNextDir ==
    /\ wpc = "walk"
    /\ stack # <<>>
    /\ root' = Head(stack)
    /\ files' = Listing(fs, Head(stack))
    /\ stack' = SubDirsOf(Head(stack)) \o Tail(stack)
    /\ wpc' = "files"
    /\ UNCHANGED <<fs, fs0, fixState,
                   fixed_count, printed, wret>>
    /\ UNCHANGED <<readVars, scanVars>>

\* Lines 55-60: the next entry of `files` (their order is the directory's) has
\* a C++ extension: fix_unicode_file is called with its path.
WalkCallFix ==
    /\ wpc = "files"
    /\ \E file \in files :
         /\ IsCppName(file)
         /\ files' = files \ {file}
         /\ Enter(Join(root, file))
    /\ wpc' = "calling"
    /\ UNCHANGED <<fs0, stack, root, fixed_count, printed, wret>>
    /\ UNCHANGED <<readVars, scanVars>>

\* Lines 55-56: the next entry has no C++ extension and is skipped.
WalkSkip ==
    /\ wpc = "files"
    /\ \E file \in files :
         /\ ~IsCppName(file)
         /\ files' = files \ {file}
    /\ UNCHANGED <<fs, fs0, fixState,
                   wpc, stack, root, fixed_count, printed, wret>>
    /\ UNCHANGED <<readVars, scanVars>>

\* WalkCount with a slip: every return is counted.
WalkCountAll ==
    /\ wpc = "calling"
    /\ pc = "done"
    /\ fixed_count' = fixed_count + 1
    /\ pc' = "idle"
    /\ wpc' = "files"
    /\ UNCHANGED <<fs, fs0, filepath, content, ret, entry, opened, raisedAt, hist,
                   passed, stack, root, files, printed, wret>>
    /\ UNCHANGED <<readVars, scanVars>>

\* Lines 60-61: fix_unicode_file returned; a True is counted.
WalkCount ==
    /\ wpc = "calling"
    /\ pc = "done"
    /\ fixed_count' = IF ret THEN fixed_count + 1 ELSE fixed_count
    /\ pc' = "idle"
    /\ wpc' = "files"
    /\ UNCHANGED <<fs, fs0, filepath, content, ret, entry, opened, raisedAt, hist,
                   passed, stack, root, files, printed, wret>>
    /\ UNCHANGED <<readVars, scanVars>>

\* Line 60: fix_unicode_file raised; fix_project_files catches nothing, so
\* the exception ends the walk.
WalkRaises ==
    /\ wpc = "calling"
    /\ pc = "raised"
    /\ wpc' = "raised"
    /\ UNCHANGED <<fs, fs0, fixState,
                   stack, root, files, fixed_count, printed, wret>>
    /\ UNCHANGED <<readVars, scanVars>>

\* Line 55: the inner loop is over.
WalkDirDone ==
    /\ wpc = "files"
    /\ files = {}
    /\ wpc' = "walk"
    /\ UNCHANGED <<fs, fs0, fixState,
                   stack, root, files, fixed_count, printed, wret>>
    /\ UNCHANGED <<readVars, scanVars>>

\* What fix_project_files returns: the function has no return statement.
NoneValue == [type |-> "NoneType", value |-> 0]
IntValue(n) == [type |-> "int", value |-> n]

WalkResult(count) == NoneValue

\* Line 63: the walk is over, the count is printed, the function ends.
WalkEnd ==
    /\ wpc = "walk"
    /\ stack = <<>>
    /\ printed' = fixed_count
    /\ wret' = WalkResult(fixed_count)
    /\ wpc' = "done"
    /\ UNCHANGED <<fs, fs0, fixState,
                   stack, root, files, fixed_count>>
    /\ UNCHANGED <<readVars, scanVars>>

NextWalk ==
    \/ WalkStart
    \/ WalkNextDir
    \/ WalkCallFix
    \/ WalkSkip
    \/ WalkCount
    \/ WalkRaises
    \/ WalkDirDone
    \/ WalkEnd
    \/ FixStep

SpecWalk == InitWalk /\ [][NextWalk]_vars

(***************************************************************************)
(* Properties of fix_unicode_file, checked under SpecFix.                  *)
(***************************************************************************)
\* C1: when a call in which the read, the substitutions, the open or the
\* write raised has returned, the file holds what it held at call entry and
\* the call has returned False; this covers a write that failed after the
\* file was truncated.
C1_FailedCallRestoresFile ==
    /\ (pc = "done" /\ raisedAt # "none") => (fs[filepath] = entry /\ ret = FALSE)
    /\ \A i \in 1..Len(hist) :
         hist[i].raisedAt # "none" => (hist[i].exit = hist[i].entry /\ ~hist[i].ret)

\* The write failed on a truncated, non-empty file and the call has returned.
C1_Witness ==
    /\ pc = "done" /\ raisedAt = "write" /\ opened
    /\ Len(entry) > 0
    /\ ret = FALSE

\* C2: from the moment the file is opened for writing, filepath + ".backup"
\* exists and holds the bytes the file had at call entry; after a call that
\* returned True the backup is still there with those bytes.
C2_BackupBeforeMutation ==
    /\ (pc \in {"open", "write"} \/ opened) =>
         /\ Exists(fs, BackupPath(filepath))
         /\ fs[BackupPath(filepath)] = entry
    /\ \A i \in 1..Len(hist) : hist[i].ret => hist[i].backup = hist[i].entry

\* A call returned True after changing the file; the backup holds the old bytes.
C2_Witness ==
    /\ pc = "done" /\ ret = TRUE /\ opened
    /\ fs[filepath] # entry
    /\ fs[BackupPath(filepath)] = entry

\* The characters the table replaces, and the characters it writes.
TableSources == {Table[k][1] : k \in 1..Len(Table)}
TableOutputs == UNION {{Table[k][2][j] : j \in 1..Len(Table[k][2])} : k \in 1..Len(Table)}

\* C3: two calls in succession that both return True leave the file as the
\* first one left it, and no character the table writes is one it replaces.
C3_Idempotent ==
    /\ \A i \in 1..(Len(hist) - 1) :
         (hist[i].ret /\ hist[i + 1].ret) => hist[i + 1].exit = hist[i].exit
    /\ TableSources \cap TableOutputs = {}

\* Two calls returned True and the first one changed the file.
C3_Witness ==
    /\ Len(hist) = 2
    /\ hist[1].ret /\ hist[2].ret
    /\ hist[1].exit # hist[1].entry

(***************************************************************************)
(* Properties of fix_project_files, checked under SpecWalk.                *)
(***************************************************************************)
\* The extensions as the claims name them.
StatedExtensions == {".cpp", ".h", ".hpp", ".cc", ".cxx"}
HasStatedExtension(p) == \E e \in StatedExtensions : EndsWith(p, e)

CppPaths(f)  == {p \in DOMAIN f : HasStatedExtension(p)}
TimesPassed(p) == Count(passed, p)
Changed(p)   == ~Exists(fs0, p) \/ fs[p] # fs0[p]
WalkOver     == wpc \in {"done", "raised"}
Successes    == Cardinality({i \in 1..Len(hist) : hist[i].ret})

encodingsSwapped == <<"utf-8", "iso-8859-1", "windows-1252", "ascii">>

\* Line 76.
encodings == <<"utf-8", "windows-1252", "iso-8859-1", "ascii">>

\* windows-1252: the bytes 0x80-0x9F that have a character, and the five
\* that have none.
Cp1252High ==
    <<8364, -1, 8218, 402, 8222, 8230, 8224, 8225, 710, 8240, 352, 8249, 338, -1,
      381, -1, -1, 8216, 8217, 8220, 8221, 8226, 8211, 8212, 732, 8482, 353, 8250,
      339, -1, 382, 376>>

\* One byte under a single-byte codec; -1 where the codec has no character.
DecodeByte(encoding, b) ==
    IF encoding = "ascii" THEN (IF b < 128 THEN b ELSE -1)
    ELSE IF encoding = "windows-1252" /\ b >= 128 /\ b <= 159
         THEN Cp1252High[b - 127]
    ELSE b

\* The scan of a strict decoder: the code points, -1 at every error.
DecodeScan(encoding, bytes) ==
    IF encoding = "utf-8" THEN Utf8Scan(bytes, 1)
    ELSE [i \in 1..Len(bytes) |-> DecodeByte(encoding, bytes[i])]

\* The decoder raises UnicodeDecodeError.
DecodeFails(encoding, bytes) ==
    \E i \in 1..Len(DecodeScan(encoding, bytes)) : DecodeScan(encoding, bytes)[i] = -1

\* Lines 80-81: f.read() of a file opened in text mode with this encoding.
ReadText(encoding, bytes) == UniversalNewlines(DecodeScan(encoding, bytes))

\* Lines 88-89: errors='replace' puts U+FFFD where the bytes do not decode.
ReadTextReplacing(bytes) ==
    UniversalNewlines([i \in 1..Len(Utf8Scan(bytes, 1)) |->
                          IF Utf8Scan(bytes, 1)[i] = -1 THEN 65533
                          ELSE Utf8Scan(bytes, 1)[i]])

\* The bytes the model gives the reader: ASCII and line ends, the two bytes
\* of U+00E9, a byte windows-1252 decodes and one it does not.
ReadSamples == {65, 13, 10, 195, 169, 128, 129}

InitRead ==
    /\ \E data \in SeqsUpTo(ReadSamples, MaxReadLen) :
         fs = [p \in {TargetFile} |-> data]
    /\ fs0 = fs
    /\ FixIdle /\ WalkIdle /\ ReadIdle /\ ScanIdle /\ NoHeader

\* The call: the loop of line 78 starts at the first encoding.
SafeReadCall ==
    /\ rpc = "idle"
    /\ encIdx' = 1
    /\ rpc' = "loop"
    /\ UNCHANGED <<fs, fs0, fixState, walkVars, rret, rmsg, scanVars>>

\* Lines 78-91, one turn of the loop: the file decodes under `encoding` and
\* its text is returned, or UnicodeDecodeError is caught and the loop goes on;
\* after the last encoding the file is read with errors='replace'.
SafeReadStep ==
    /\ rpc = "loop"
    /\ IF encIdx > Len(encodings)
       THEN /\ rret' = ReadTextReplacing(fs[TargetFile])
            /\ rmsg' = "UTF-8 with error replacement"
            /\ rpc' = "returned"
            /\ UNCHANGED encIdx
       ELSE IF DecodeFails(encodings[encIdx], fs[TargetFile])
       THEN /\ encIdx' = encIdx + 1
            /\ UNCHANGED <<rret, rmsg, rpc>>
       ELSE /\ rret' = ReadText(encodings[encIdx], fs[TargetFile])
            /\ rmsg' = encodings[encIdx]
            /\ rpc' = "returned"
            /\ UNCHANGED encIdx
    /\ UNCHANGED <<fs, fs0, fixState, walkVars, scanVars>>

\* Line 80 or 88: open raises an OSError, which nothing catches.
SafeReadRaises ==
    /\ rpc = "loop"
    /\ rpc' = "raised"
    /\ UNCHANGED <<fs, fs0, fixState, walkVars, encIdx, rret, rmsg, scanVars>>

NextRead ==
    \/ SafeReadCall
    \/ SafeReadStep
    \/ SafeReadRaises

SpecRead == InitRead /\ [][NextRead]_vars

(***************************************************************************)
(* Properties of safe_read_cpp_file, checked under SpecRead.               *)
(***************************************************************************)
\* C6: the text returned is the file's text (line ends translated, as text
\* mode does) under utf-8 if the file decodes under utf-8, else under
\* windows-1252 if it decodes under that, else under iso-8859-1; bytes that
\* fail under the first two come back as iso-8859-1 decodes them, and the
\* replacement fallback is never what is returned.
C6_FirstEncodingThatDecodes ==
    rpc = "returned" =>
        LET bytes == fs[TargetFile]
        IN  /\ rmsg = (IF ~DecodeFails("utf-8", bytes) THEN "utf-8"
                       ELSE IF ~DecodeFails("windows-1252", bytes) THEN "windows-1252"
                       ELSE "iso-8859-1")
            /\ rret = ReadText(rmsg, bytes)
            /\ (DecodeFails("utf-8", bytes) /\ DecodeFails("windows-1252", bytes)) =>
                 rret = UniversalNewlines(bytes)

\* A file that fails under utf-8 and windows-1252 has been returned.
C6_Witness ==
    /\ rpc = "returned"
    /\ DecodeFails("utf-8", fs[TargetFile])
    /\ DecodeFails("windows-1252", fs[TargetFile])
    /\ rmsg = "iso-8859-1"
    /\ Len(rret) > 0

(***************************************************************************)
(* find_implementations_in_header: the patterns and re.finditer.           *)
(*                                                                         *)
(* A pattern is a sequence of items: a literal, or a character class under *)
(* + or *.  The patterns hold no "^", "$" or ".", so re.MULTILINE and      *)
(* re.DOTALL change nothing.  A text is the sequence of its characters:    *)
(* Str("ab") is <<"a", "b">>.                                              *)
(***************************************************************************)
Str(string) == [i \in 1..Len(string) |-> SubSeq(string, i, i)]

At(text, i) == text[i]

Chars(string) == {SubSeq(string, i, i) : i \in 1..Len(string)}

WordChars  == Chars("abcdefghijklmnopqrstuvwxyzABCDEFGHIJKLMNOPQRSTUVWXYZ0123456789_")
SpaceChars == {" ", "\t", "\n", "\r", "\f"}

InClass(c, class) ==
    IF class = "\\w" THEN c \in WordChars
    ELSE IF class = "\\s" THEN c \in SpaceChars
    ELSE IF class = "[^)]" THEN c # ")"
    ELSE IF class = "[^}]" THEN c # "}"
    ELSE c \notin {"{", "}"}           \* [^{}]

Lit(string) == [kind |-> "lit",  arg |-> Str(string)]
Plus(class) == [kind |-> "plus", arg |-> class]
Star(class) == [kind |-> "star", arg |-> class]

\* "(...)" followed by "{ ... }" up to the first "}": the tail of patterns 1, 2, 4.
ArgsAndBody ==
    <<Lit("("), Star("[^)]"), Lit(")"), Star("\\s"), Lit("{"), Star("[^}]"), Lit("}")>>

\* Lines 16-28.
patterns ==
    << \* \w+::\w+\([^)]*\)\s*{[^}]*}
       <<Plus("\\w"), Lit("::"), Plus("\\w")>> \o ArgsAndBody,
       \* \w+\s+\w+::\w+\([^)]*\)\s*{[^}]*}
       <<Plus("\\w"), Plus("\\s"), Plus("\\w"), Lit("::"), Plus("\\w")>> \o ArgsAndBody,
       \* \w+\s+\w+\([^)]*\)\s*{[^{}]*{[^}]*}[^}]*}
       <<Plus("\\w"), Plus("\\s"), Plus("\\w"), Lit("("), Star("[^)]"), Lit(")"),
         Star("\\s"), Lit("{"), Star("[^{}]"), Lit("{"), Star("[^}]"), Lit("}"),
         Star("[^}]"), Lit("}")>>,
       \* static\s+\w+\s+\w+\([^)]*\)\s*{[^}]*}
       <<Lit("static"), Plus("\\s"), Plus("\\w"), Plus("\\s"), Plus("\\w")>>
         \o ArgsAndBody >>

\* The first position in lo..hi whose character is not in the class, 0 if
\* there is none; the positions are tried from the left, by halves.
RECURSIVE FirstStop(_, _, _, _)
FirstStop(text, class, lo, hi) ==
    IF lo > hi THEN 0
    ELSE IF lo = hi THEN (IF InClass(At(text, lo), class) THEN 0 ELSE lo)
    ELSE LET mid  == (lo + hi) \div 2
             left == FirstStop(text, class, lo, mid)
         IN  IF left # 0 THEN left ELSE FirstStop(text, class, mid + 1, hi)

\* How many characters from position i on are in the class.
Run(text, i, class) ==
    LET stop == FirstStop(text, class, i, Len(text))
    IN  IF stop = 0 THEN Len(text) + 1 - i ELSE stop - i

\* The backtracking matcher: the position after the match of items k.. at
\* position i, 0 if there is none.  A repetition takes as much as it can and
\* gives back one character at a time: GiveBack tries the lengths from
\* `taken` down to `least`, by halves, and stops at the first that fits.
RECURSIVE MatchFrom(_, _, _, _), GiveBack(_, _, _, _, _, _)
MatchFrom(items, k, text, i) ==
    IF k > Len(items) THEN i
    ELSE IF items[k].kind = "lit"
    THEN LET n == Len(items[k].arg)
         IN  IF i + n - 1 <= Len(text) /\ SubSeq(text, i, i + n - 1) = items[k].arg
             THEN MatchFrom(items, k + 1, text, i + n)
             ELSE 0
    ELSE GiveBack(items, k, text, i, Run(text, i, items[k].arg),
                  IF items[k].kind = "plus" THEN 1 ELSE 0)

GiveBack(items, k, text, i, taken, least) ==
    IF taken < least THEN 0
    ELSE IF taken = least THEN MatchFrom(items, k + 1, text, i + taken)
    ELSE LET mid    == (least + taken + 1) \div 2
             longer == GiveBack(items, k, text, i, taken, mid)
         IN  IF longer # 0 THEN longer
             ELSE GiveBack(items, k, text, i, mid - 1, least)

\* The leftmost match that starts in lo..hi; start = 0 when there is none.
\* The positions are tried from the left, by halves.
RECURSIVE MatchIn(_, _, _, _)
MatchIn(items, text, lo, hi) ==
    IF lo > hi THEN [start |-> 0, end |-> 0]             \* no match
    ELSE IF lo = hi
    THEN LET end == MatchFrom(items, 1, text, lo)
         IN  IF end # 0 THEN [start |-> lo, end |-> end] ELSE [start |-> 0, end |-> 0]
    ELSE LET mid  == (lo + hi) \div 2
             left == MatchIn(items, text, lo, mid)
         IN  IF left.start # 0 THEN left ELSE MatchIn(items, text, mid + 1, hi)

\* re.finditer's next match at or after `from`: the leftmost position where
\* the pattern matches; start = 0 when there is none.
NextMatch(items, text, from) == MatchIn(items, text, from, Len(text))

\* str.count(ch)
CountChar(text, ch) == Cardinality({i \in 1..Len(text) : At(text, i) = ch})

\* Line 39 with a slip: >= for >.
TruncatedFrom100(impl) ==
    IF Len(impl) >= TruncateAt THEN SubSeq(impl, 1, TruncateAt) \o Str("...") ELSE impl

\* Line 39: impl[:100] + '...' if len(impl) > 100 else impl
Truncated(impl) ==
    IF Len(impl) > TruncateAt THEN SubSeq(impl, 1, TruncateAt) \o Str("...") ELSE impl

\* Line 40: content[:match.start()].count('\n') + 1
LineOf(text, start) == CountChar(SubSeq(text, 1, start - 1), "\n") + 1

\* Lines 38-42.
Candidate(text, m) ==
    LET impl == SubSeq(text, m.start, m.end - 1)    \* match.group(1)
    IN  [text |-> Truncated(impl), line |-> LineOf(text, m.start), size |-> Len(impl)]

\* Line 37 with a slip: >= for >.
IsKeptFrom2(impl) == CountChar(impl, "\n") >= 2

\* Line 37: impl.count('\n') > 2
IsKept(impl) == CountChar(impl, "\n") > 2

(***************************************************************************)
(* find_implementations_in_header(header_path), one action per match.      *)
(***************************************************************************)
NoMatch == [start |-> 0, end |-> 0]

\* match.group(1): every pattern is one group.
Group(text, m) == SubSeq(text, m.start, m.end - 1)

Noted(m) == [pattern |-> patIdx, start |-> m.start, end |-> m.end]

\* Lines 33-34: re.finditer searches on from the end of the match before.
ScanSearch ==
    /\ spc = "scan"
    /\ patIdx <= Len(patterns)
    /\ match' = NextMatch(patterns[patIdx], header, pos)
    /\ spc' = IF match'.start = 0 THEN "exhausted" ELSE "matched"
    /\ UNCHANGED <<layout, header, patIdx, pos, implementations, matches, returned,
                   cpc, found, report>>
    /\ UNCHANGED <<fs, fs0, fixState, walkVars, readVars>>

\* Lines 35-42: the match has more than 2 newlines and is appended.
ScanKeep ==
    /\ spc = "matched"
    /\ IsKept(Group(header, match))
    /\ implementations' = Append(implementations, Candidate(header, match))
    /\ matches' = Append(matches, Noted(match))
    /\ pos' = match.end
    /\ spc' = "scan"
    /\ UNCHANGED <<layout, header, patIdx, match, returned, cpc, found, report>>
    /\ UNCHANGED <<fs, fs0, fixState, walkVars, readVars>>

\* Lines 35-37: the match has 2 newlines or fewer and is skipped.
ScanSkip ==
    /\ spc = "matched"
    /\ ~IsKept(Group(header, match))
    /\ matches' = Append(matches, Noted(match))
    /\ pos' = match.end
    /\ spc' = "scan"
    /\ UNCHANGED <<layout, header, patIdx, match, implementations, returned, cpc,
                   found, report>>
    /\ UNCHANGED <<fs, fs0, fixState, walkVars, readVars>>

\* Lines 32-33: the pattern has no further match; the next pattern is
\* searched from the start of the text.
ScanNextPattern ==
    /\ spc = "exhausted"
    /\ patIdx' = patIdx + 1
    /\ pos' = 1
    /\ spc' = "scan"
    /\ UNCHANGED <<layout, header, match, implementations, matches, returned, cpc,
                   found, report>>
    /\ UNCHANGED <<fs, fs0, fixState, walkVars, readVars>>

\* Line 44.
ScanReturn ==
    /\ spc = "scan"
    /\ patIdx > Len(patterns)
    /\ returned' = implementations
    /\ spc' = "returned"
    /\ UNCHANGED <<layout, header, patIdx, pos, match, implementations, matches, cpc,
                   found, report>>
    /\ UNCHANGED <<fs, fs0, fixState, walkVars, readVars>>

(***************************************************************************)
(* generate_move_checklist(header_path).                                   *)
(***************************************************************************)
RECURSIVE Reverse(_)
Reverse(list) ==
    IF Len(list) = 0 THEN <<>>
    ELSE Append(Reverse(SubSeq(list, 2, Len(list))), list[1])

\* `x` put into a list sorted by ascending size, after the entries that are
\* not larger: a stable insertion.
RECURSIVE Inserted(_, _)
Inserted(sorted, x) ==
    IF Len(sorted) = 0 THEN <<x>>
    ELSE IF sorted[1].size <= x.size
         THEN <<sorted[1]>> \o Inserted(SubSeq(sorted, 2, Len(sorted)), x)
         ELSE <<x>> \o sorted

RECURSIVE StableAscending(_)
StableAscending(list) ==
    IF Len(list) = 0 THEN <<>>
    ELSE Inserted(StableAscending(SubSeq(list, 1, Len(list) - 1)), list[Len(list)])

\* Line 55 with a slip: the ascending sort reversed, which turns ties around.
SortedBySizeReversed(list) == Reverse(StableAscending(list))

\* Line 55: list.sort(key=size, reverse=True).  The sort is stable, and with
\* reverse=True it reverses the list, sorts it ascending and reverses it back,
\* so that entries of equal size keep their order.
SortedBySize(list) == Reverse(StableAscending(Reverse(list)))

\* Line 57: enumerate(implementations, 1)
Enumerated(list, first) == [i \in 1..Len(list) |-> <<first + i - 1, list[i]>>]

\* Line 49: the scanner is called; it starts with the first pattern and an
\* empty list (lines 30-33).
ChecklistCall ==
    /\ cpc = "idle"
    /\ cpc' = "scanning"
    /\ spc' = "scan"
    /\ patIdx' = 1
    /\ pos' = 1
    /\ implementations' = <<>>
    /\ UNCHANGED <<layout, header, match, matches, returned, found, report>>
    /\ UNCHANGED <<fs, fs0, fixState, walkVars, readVars>>

\* Lines 51-52.
PrintFound ==
    /\ cpc = "scanning"
    /\ spc = "returned"
    /\ found' = Len(implementations)
    /\ cpc' = "sort"
    /\ UNCHANGED <<layout, header, spc, patIdx, pos, match, implementations, matches,
                   returned, report>>
    /\ UNCHANGED <<fs, fs0, fixState, walkVars, readVars>>

\* Line 55.
SortBySize ==
    /\ cpc = "sort"
    /\ implementations' = SortedBySize(implementations)
    /\ cpc' = "print"
    /\ UNCHANGED <<layout, header, spc, patIdx, pos, match, matches, returned, found,
                   report>>
    /\ UNCHANGED <<fs, fs0, fixState, walkVars, readVars>>

\* Lines 57-67: one numbered entry per candidate, then the fixed advice.
PrintEntries ==
    /\ cpc = "print"
    /\ report' = [i \in 1..Len(implementations) |->
                    LET e == Enumerated(implementations, 1)[i]
                    IN  [rank |-> e[1], line |-> e[2].line, text |-> e[2].text,
                         size |-> e[2].size]]
    /\ cpc' = "done"
    /\ UNCHANGED <<layout, header, spc, patIdx, pos, match, implementations, matches,
                   returned, found>>
    /\ UNCHANGED <<fs, fs0, fixState, walkVars, readVars>>

(***************************************************************************)
(* The headers the model scans.  A header is a sequence of blocks, one     *)
(* after the other, each followed by a newline.  A block is a signature    *)
(* and a body whose text holds n newlines (so it spans n + 1 lines), with  *)
(* `pad` further characters before its closing brace.  An inline method of *)
(* one line is a plain accessor; a longer one holds a nested block.        *)
(***************************************************************************)
\* n copies of the text, one after the other.
Rep(text, n) == [i \in 1..(n * Len(text)) |-> text[((i - 1) % Len(text)) + 1]]

Shapes == {"ctor", "method", "inline", "static"}

Signature(shape) ==
    IF shape = "ctor" THEN Str("Ab::Ab()")
    ELSE IF shape = "method" THEN Str("int Ab::x()")
    ELSE IF shape = "inline" THEN Str("int y()")
    ELSE Str("static int z()")

Body(b) ==
    Str(" {")
    \o (IF b.shape = "inline" /\ b.n > 0 THEN Str(" do { a; }") ELSE <<>>)
    \o (IF b.n = 0 THEN Str(" b; ")
        ELSE Rep(Str("\n b;"), b.n - 1) \o Str("\n"))
    \o Rep(Str(";"), b.pad) \o Str("}")

Block(b) == Signature(b.shape) \o Body(b)

RECURSIVE Rendered(_)
Rendered(blocks) ==
    IF Len(blocks) = 0 THEN <<>>
    ELSE Block(blocks[1]) \o Str("\n") \o Rendered(SubSeq(blocks, 2, Len(blocks)))

PlainBlocks  == [shape : Shapes, n : 0..MaxBodyNewlines, pad : {0}]
Unpadded     == [shape |-> "ctor", n |-> 3, pad |-> 0]
PaddedBlocks ==
    [shape : {"ctor"}, n : {3},
     pad : (TruncateAt - Len(Block(Unpadded)) - MaxPad)
               ..(TruncateAt - Len(Block(Unpadded)) + MaxPad)]

InitScan ==
    /\ layout \in SeqsUpTo(PlainBlocks, MaxBlocks) \cup {<<b>> : b \in PaddedBlocks}
    /\ header = Rendered(layout)
    /\ fs = <<>> /\ fs0 = fs
    /\ FixIdle /\ WalkIdle /\ ReadIdle /\ ScanIdle

NextScan ==
    \/ ChecklistCall
    \/ ScanSearch
    \/ ScanKeep
    \/ ScanSkip
    \/ ScanNextPattern
    \/ ScanReturn
    \/ PrintFound
    \/ SortBySize
    \/ PrintEntries

SpecScan == InitScan /\ [][NextScan]_vars

(***************************************************************************)
(* Properties of the scanner and the renderer, checked under SpecScan.     *)
(***************************************************************************)
Newlines(text) == CountChar(text, "\n")

\* The scanner has just returned: its list and the matches are final.
ScanDone == spc = "returned" /\ cpc = "scanning"

\* The matches that have more than 2 newlines, in the order found.
LongMatches == SelectSeq(matches, LAMBDA m : Newlines(Group(header, m)) > 2)

SizesOf(list) == {list[i].size : i \in 1..Len(list)}
OfSize(list, size) == SelectSeq(list, LAMBDA c : c.size = size)

\* C7: after the sort the sizes do not increase from one entry to the next,
\* candidates of equal size are in the order the scanner returned them, and
\* the list holds what the scanner returned, nothing more or less; the
\* printed ranks are 1..N in order, each with its candidate's line, text and
\* size; the count printed is N, and for N = 0 no entry is printed.
C7_SortedStableRanked ==
    /\ cpc \in {"print", "done"} =>
         /\ \A i \in 1..(Len(implementations) - 1) :
              implementations[i].size >= implementations[i + 1].size
         /\ Len(implementations) = Len(returned)
         /\ \A size \in SizesOf(returned) \cup SizesOf(implementations) :
              OfSize(implementations, size) = OfSize(returned, size)
         /\ found = Len(returned)
    /\ cpc = "done" =>
         /\ Len(report) = Len(returned)
         /\ \A i \in 1..Len(report) :
              /\ report[i].rank = i
              /\ report[i].line = implementations[i].line
              /\ report[i].text = implementations[i].text
              /\ report[i].size = implementations[i].size
         /\ returned = <<>> => (found = 0 /\ report = <<>>)

\* The report is printed; the sort moved a larger candidate in front of a
\* smaller one and kept two candidates of equal size in their order.
C7_Witness ==
    /\ cpc = "done"
    /\ implementations # returned
    /\ \E i \in 1..Len(returned) : \E j \in (i + 1)..Len(returned) :
         /\ returned[i].size = returned[j].size
         /\ returned[i].line < returned[j].line
    /\ \E i \in 1..Len(report) : report[i].rank = 3

\* C8: a candidate's text is the matched text itself when that has at most
\* 100 characters, its first 100 characters followed by "..." when it has
\* more, and its size is the length of the matched text either way.
C8_TruncationLaw ==
    ScanDone =>
        /\ Len(returned) = Len(LongMatches)
        /\ \A i \in 1..Len(returned) :
             LET raw == Group(header, LongMatches[i])
             IN  /\ Len(raw) <= 100 => returned[i].text = raw
                 /\ Len(raw) > 100 =>
                      returned[i].text = SubSeq(raw, 1, 100) \o <<".", ".", ".">>
                 /\ returned[i].size = Len(raw)

\* A candidate of 101 characters was returned with a text of 103.
C8_Witness ==
    /\ ScanDone
    /\ \E i \in 1..Len(returned) :
         returned[i].size = 101 /\ Len(returned[i].text) = 103

\* Where block k of the header opens: one line per newline before it.
RECURSIVE LinesBefore(_)
LinesBefore(k) == IF k = 1 THEN 0 ELSE LinesBefore(k - 1) + layout[k - 1].n + 1
BlockLine(k) == LinesBefore(k) + 1
BlockLines(k) == layout[k].n + 1

\* C9 as stated: for every constructor-shaped block that spans more than 2
\* lines, a candidate is returned whose line is the line the block opens on.
C9_AsStated ==
    ScanDone =>
        \A k \in 1..Len(layout) :
            (layout[k].shape = "ctor" /\ BlockLines(k) > 2) =>
                \E i \in 1..Len(returned) : returned[i].line = BlockLine(k)

\* Position s lies in a match that finditer produced for pattern p.
Covered(p, s) ==
    \E i \in 1..Len(matches) :
        matches[i].pattern = p /\ matches[i].start <= s /\ s < matches[i].end

====
